---------------------------- MODULE Spec2Model ----------------------------
(***************************************************************************)
(* A model of edustudio/web/handlers.py: the domain values and fixtures,   *)
(* the presentation formatters, the view-model builders and the three      *)
(* request handlers of the student routes.                                 *)
(*                                                                         *)
(* Conventions.                                                            *)
(*   - A date is <<year, month, day>>.                                     *)
(*   - A UUID is its 128-bit value written as 32 hexadecimal digits        *)
(*     (0..15), most significant first; str(uuid) is computed from it.     *)
(*   - A TimeSlot is the tuple <<hours, minutes, period>>.                 *)
(*   - The result of a call that may raise is Ok(v) or Raise(e).           *)
(*   - Python's Optional[T] is <<>> (None) or <<v>>.                       *)
(*   - Strings of the source that are not ASCII are written romanised      *)
(*     (the module's tools read ASCII only); they are opaque labels.       *)
(***************************************************************************)
EXTENDS Integers, Sequences, FiniteSets, TLC

VARIABLES
    students,   \* the module-level list `students` (the fixture store)
    today,      \* what date.today() returns
    pc,         \* per client: where its request is in the handler
    request,    \* per client: the route and match_info of its request
    found,      \* per client: the student get_student returned (a reference)
    response,   \* per client: what the handler returned or raised
    input,      \* the argument of the builder under check
    output      \* what the builder returned or raised

vars == <<students, today, pc, request, found, response, input, output>>

(***************************************************************************)
(* Results and options                                                     *)
(***************************************************************************)
Ok(v) == [raised |-> "", value |-> v]

Raise(e) == [raised |-> e, value |-> <<>>]

IsOk(r) == r.raised = ""

None == <<>>

Some(v) == <<v>>

Range(s) == {s[i] : i \in DOMAIN s}

SeqsUpTo(S, n) == UNION {[1..k -> S] : k \in 0..n}

(***************************************************************************)
(* Enumerations (handlers.py 15-52)                                        *)
(***************************************************************************)
Gender == {"FEMALE", "MALE"}

Status == {"NONE", "BREAK"}

Period == {"AM", "PM"}

AttendanceStatus == {"ABSENT", "LATE", "PRESENT"}

\* TimeSlot(NamedTuple): hours, minutes, period
TimeSlot(hours, minutes, period) == <<hours, minutes, period>>

\* @dataclass(frozen=True) class Class: equality is on all three fields
Class(id, name, time_slot) == [id |-> id, name |-> name, time_slot |-> time_slot]

ContactInfo(parent_phone_number) ==
    [parent_phone_number |-> parent_phone_number, student_phone_number |-> ""]

Attendance(date, class_, status) == [date |-> date, class_ |-> class_, status |-> status]

(***************************************************************************)
(* uuid.UUID: str() and ordering                                           *)
(***************************************************************************)
HexChar == <<"0", "1", "2", "3", "4", "5", "6", "7",
             "8", "9", "a", "b", "c", "d", "e", "f">>

RECURSIVE HexStr(_, _, _)
\* the lower-case hexadecimal digits of u[from..to]
HexStr(u, from, to) ==
    IF from > to THEN "" ELSE HexChar[u[from] + 1] \o HexStr(u, from + 1, to)

\* UUID.__str__: '%s-%s-%s-%s-%s' % (hex[:8], hex[8:12], hex[12:16], hex[16:20], hex[20:])
UUIDStr(u) ==
    HexStr(u, 1, 8) \o "-" \o HexStr(u, 9, 12) \o "-" \o HexStr(u, 13, 16)
        \o "-" \o HexStr(u, 17, 20) \o "-" \o HexStr(u, 21, 32)

RECURSIVE SeqLess(_, _, _)
\* a < b for two digit sequences of one length, from digit i on
SeqLess(a, b, i) ==
    IF i > Len(a) THEN FALSE
    ELSE IF a[i] # b[i] THEN a[i] < b[i]
    ELSE SeqLess(a, b, i + 1)

\* UUID.__lt__: self.int < other.int
UUIDLess(a, b) == SeqLess(a, b, 1)

(***************************************************************************)
(* Comparison of sort keys.  The result is "True", "False" or the name of  *)
(* the exception the comparison raises.                                    *)
(***************************************************************************)
\* TimeSlot.__lt__ is tuple.__lt__: the first position where the tuples
\* differ (by ==) decides, with that position's own <.  hours and minutes are
\* ints; period is a Period(Enum), which defines no ordering, so < on two
\* different periods raises TypeError.  Equal tuples are not less.
TimeSlotLess(a, b) ==
    IF a[1] # b[1] THEN (IF a[1] < b[1] THEN "True" ELSE "False")
    ELSE IF a[2] # b[2] THEN (IF a[2] < b[2] THEN "True" ELSE "False")
    ELSE IF a[3] # b[3] THEN "TypeError"
    ELSE "False"

\* key(x) < key(y) for the two key functions of the module:
\*   "time_slot": lambda c: c.time_slot      "class_id": lambda a: a.class_.id
KeyLess(key, x, y) ==
    IF key = "time_slot" THEN TimeSlotLess(x.time_slot, y.time_slot)
    ELSE IF UUIDLess(x.class_.id, y.class_.id) THEN "True" ELSE "False"

(***************************************************************************)
(* sorted(iterable, key=...)                                               *)
(*                                                                         *)
(* A stable sort that only asks key(x) < key(y); the first comparison that *)
(* raises ends the sort with that exception.  Insertion from the right is  *)
(* used: a stable sort's result does not depend on the algorithm, and any  *)
(* comparison sort has to compare some two elements whose keys differ only *)
(* in the period when such elements exist, so whether it raises does not   *)
(* depend on the algorithm either.                                         *)
(***************************************************************************)
RECURSIVE InsertSorted(_, _, _, _)
\* x inserted into the sorted sequence s, scanning s from position i down
InsertSorted(key, x, s, i) ==
    IF i = 0 THEN Ok(<<x>> \o s)
    ELSE LET c == KeyLess(key, x, s[i]) IN
         IF c = "True" THEN InsertSorted(key, x, s, i - 1)
         ELSE IF c = "False"
              THEN Ok(SubSeq(s, 1, i) \o <<x>> \o SubSeq(s, i + 1, Len(s)))
              ELSE Raise(c)

RECURSIVE SortedFrom(_, _, _, _)
SortedFrom(key, s, done, i) ==
    IF i > Len(s) THEN Ok(done)
    ELSE LET r == InsertSorted(key, s[i], done, Len(done)) IN
         IF IsOk(r) THEN SortedFrom(key, s, r.value, i + 1) ELSE r

\* sorted(s, key=key)
Sorted(key, s) == SortedFrom(key, s, <<>>, 1)

(***************************************************************************)
(* datetime.date                                                           *)
(***************************************************************************)
\* calendar.isleap
IsLeap(y) == y % 4 = 0 /\ (y % 100 # 0 \/ y % 400 = 0)

\* calendar.monthrange(year, month)[1]
DaysInMonth(y, m) ==
    IF m = 2 THEN (IF IsLeap(y) THEN 29 ELSE 28)
    ELSE IF m \in {4, 6, 9, 11} THEN 30 ELSE 31

\* date.__lt__
DateLess(a, b) ==
    \/ a[1] < b[1]
    \/ a[1] = b[1] /\ a[2] < b[2]
    \/ a[1] = b[1] /\ a[2] = b[2] /\ a[3] < b[3]

\* the day after d
NextDay(d) ==
    IF d[3] < DaysInMonth(d[1], d[2]) THEN <<d[1], d[2], d[3] + 1>>
    ELSE IF d[2] < 12 THEN <<d[1], d[2] + 1, 1>>
    ELSE <<d[1] + 1, 1, 1>>

\* '%02d' % n
Pad2(n) == IF n < 10 THEN "0" \o ToString(n) ELSE ToString(n)

\* '%04d' % n
Pad4(n) ==
    IF n < 10 THEN "000" \o ToString(n)
    ELSE IF n < 100 THEN "00" \o ToString(n)
    ELSE IF n < 1000 THEN "0" \o ToString(n)
    ELSE ToString(n)

\* date.__str__ is date.isoformat(): '%04d-%02d-%02d'
DateStr(d) == Pad4(d[1]) \o "-" \o Pad2(d[2]) \o "-" \o Pad2(d[3])

(***************************************************************************)
(* dateutil.relativedelta.relativedelta(dt1, dt2), as calculate_age calls  *)
(* it: the difference in whole months, then .years of it.                  *)
(***************************************************************************)
\* dt + relativedelta(months=n): the month moved by n, the day clipped to the
\* length of the month reached (relativedelta.__add__ with years and months
\* only: day = min(monthrange(year, month)[1], dt.day))
AddMonths(dt, n) ==
    LET total == dt[1] * 12 + (dt[2] - 1) + n
        y == total \div 12
        m == (total % 12) + 1
    IN <<y, m, IF dt[3] < DaysInMonth(y, m) THEN dt[3] ELSE DaysInMonth(y, m)>>

RECURSIVE MonthsBack(_, _, _)
\* while dt1 < dt2 + months: months -= 1      (the branch dt1 >= dt2)
MonthsBack(dt1, dt2, months) ==
    IF DateLess(dt1, AddMonths(dt2, months))
    THEN MonthsBack(dt1, dt2, months - 1)
    ELSE months

RECURSIVE MonthsForth(_, _, _)
\* while dt1 > dt2 + months: months += 1      (the branch dt1 < dt2)
MonthsForth(dt1, dt2, months) ==
    IF DateLess(AddMonths(dt2, months), dt1)
    THEN MonthsForth(dt1, dt2, months + 1)
    ELSE months

\* relativedelta(dt1, dt2): months = (dt1.year - dt2.year) * 12 + (dt1.month -
\* dt2.month), corrected until dt2 + months does not pass dt1
RelativeMonths(dt1, dt2) ==
    LET months == (dt1[1] - dt2[1]) * 12 + (dt1[2] - dt2[2])
    IN IF DateLess(dt1, dt2) THEN MonthsForth(dt1, dt2, months)
       ELSE MonthsBack(dt1, dt2, months)

\* relativedelta._set_months: years = sign * (abs(months) // 12)
YearsOfMonths(months) ==
    IF months >= 0 THEN months \div 12 ELSE -((-months) \div 12)

\* years the way a subtraction of the year numbers gives them
calculate_age_by_year(today_, date_of_birth) == today_[1] - date_of_birth[1]

\* def calculate_age(today, date_of_birth): relativedelta(today, date_of_birth).years
calculate_age(today_, date_of_birth) ==
    YearsOfMonths(RelativeMonths(today_, date_of_birth))

(***************************************************************************)
(* Presentation formatters (handlers.py 108-132)                           *)
(***************************************************************************)
\* {Period.AM: "AM", Period.PM: "PM"}.get(period, "")
show_period(period) ==
    CASE period = "AM" -> "AM"
      [] period = "PM" -> "PM"
      [] OTHER -> ""

\* f"{cls.time_slot.hours}:{cls.time_slot.minutes}{show_period(cls.time_slot.period)} {cls.name}"
show_class_name(cls) ==
    ToString(cls.time_slot[1]) \o ":" \o ToString(cls.time_slot[2])
        \o show_period(cls.time_slot[3]) \o " " \o cls.name

\* {Gender.FEMALE: "여", Gender.MALE: "남"}.get(gender, "")
show_gender(gender) ==
    CASE gender = "FEMALE" -> "yeo"
      [] gender = "MALE" -> "nam"
      [] OTHER -> ""

\* {Status.NONE: "", Status.BREAK: "휴원"}.get(status, "")
show_status(status) ==
    CASE status = "NONE" -> ""
      [] status = "BREAK" -> "hyuwon"
      [] OTHER -> ""

\* str(date_joined)
show_date_joined(date_joined) == DateStr(date_joined)

(***************************************************************************)
(* Python float arithmetic (IEEE 754 binary64, round to nearest, ties to   *)
(* even), as far as percentage() uses it.  A positive float is             *)
(* [zero |-> FALSE, m |-> its 53-bit significand, e |-> the exponent of    *)
(* the significand's first bit]: the value is m * 2^(e - 52).  A           *)
(* significand, like every wide integer here, is written as four digits    *)
(* <<d3, d2, d1, d0>> in base 2^16, most significant first, so that no     *)
(* intermediate value leaves 32 bits.                                      *)
(***************************************************************************)
MantissaBits == 53

Limb == 2^16

FloatZero == [zero |-> TRUE, m |-> <<0, 0, 0, 0>>, e |-> 0]

\* the number of binary digits of x, 0 <= x < 2^20
BitLen(x) == CHOOSE k \in 0..20 : x < 2^k /\ (k = 0 \/ x >= 2^(k - 1))

\* X \div 2^s for a four-digit X and 0 <= s < 16
ShiftRight(X, s) ==
    LET p == 2^s
        up == Limb \div p
    IN << X[1] \div p,
          (X[1] % p) * up + X[2] \div p,
          (X[2] % p) * up + X[3] \div p,
          (X[3] % p) * up + X[4] \div p >>

\* X + 1 for a four-digit X
Increment(X) ==
    IF X[4] + 1 < Limb THEN <<X[1], X[2], X[3], X[4] + 1>>
    ELSE IF X[3] + 1 < Limb THEN <<X[1], X[2], X[3] + 1, 0>>
    ELSE IF X[2] + 1 < Limb THEN <<X[1], X[2] + 1, 0, 0>>
    ELSE <<X[1] + 1, 0, 0, 0>>

\* the float nearest to the exact value X * 2^(e - (bits of X) + 1) (+ a
\* non-zero rest below X's last bit when sticky): X, of at least 53 bits, cut
\* to 53 bits, rounded to nearest, a tie to the even significand
RoundToFloat(X, e, sticky) ==
    LET s == (3 * 16 + BitLen(X[1])) - MantissaBits
        m == ShiftRight(X, s)
        dropped == X[4] % (2^s)
        guard == s > 0 /\ dropped >= 2^(s - 1)
        rest == sticky \/ (s > 0 /\ dropped % (2^(s - 1)) # 0)
        up == guard /\ (rest \/ m[4] % 2 = 1)
        inc == Increment(m)
    IN IF ~up THEN [zero |-> FALSE, m |-> m, e |-> e]
       ELSE IF BitLen(inc[1]) = BitLen(m[1]) THEN [zero |-> FALSE, m |-> inc, e |-> e]
       ELSE [zero |-> FALSE, m |-> ShiftRight(inc, 1), e |-> e + 1]

RECURSIVE ScaleUp(_, _, _)
\* num < den: double num until den <= num, counting the exponent down
ScaleUp(num, den, e) ==
    IF num >= den THEN [num |-> num, den |-> den, e |-> e]
    ELSE ScaleUp(2 * num, den, e - 1)

RECURSIVE ScaleDown(_, _, _)
\* num >= den: double den while 2 * den <= num, counting the exponent up
ScaleDown(num, den, e) ==
    IF num < 2 * den THEN [num |-> num, den |-> den, e |-> e]
    ELSE ScaleDown(num, 2 * den, e + 1)

\* a / b (true division) for ints 0 < a, b < 2^10: the quotient num / den in
\* [1, 2) is divided out to 54 bits, digit by digit, and rounded to 53
FloatDiv(a, b) ==
    LET n == IF a < b THEN ScaleUp(a, b, 0) ELSE ScaleDown(a, b, 0)
        x3 == n.num * 2^5
        x2 == (x3 % n.den) * Limb
        x1 == (x2 % n.den) * Limb
        x0 == (x1 % n.den) * Limb
    IN RoundToFloat(<<x3 \div n.den, x2 \div n.den, x1 \div n.den, x0 \div n.den>>,
                    n.e, x0 % n.den # 0)

\* f * n for a float f and an int 0 <= n < 2^10 (the int converts to a float
\* exactly): the exact product, rounded once
FloatMulInt(f, n) ==
    IF f.zero \/ n = 0 THEN FloatZero
    ELSE LET c0 == f.m[4] * n
             c1 == f.m[3] * n + c0 \div Limb
             c2 == f.m[2] * n + c1 \div Limb
             c3 == f.m[1] * n + c2 \div Limb
         IN RoundToFloat(<<c3, c2 % Limb, c1 % Limb, c0 % Limb>>,
                         f.e + ((3 * 16 + BitLen(c3)) - MantissaBits), FALSE)

\* round(x) for a float 0 <= x < 2^20 and no ndigits: the nearest int, a tie
\* to the even one (float.__round__)
PyRound(f) ==
    IF f.zero \/ f.e < -1 THEN 0
    ELSE LET top == f.m[1] * Limb + f.m[2]
             whole == top \div 2^(20 - f.e)
             half == (top \div 2^(19 - f.e)) % 2
             rest == top % (2^(19 - f.e)) # 0 \/ f.m[3] # 0 \/ f.m[4] # 0
         IN IF half = 0 THEN whole
            ELSE IF rest THEN whole + 1
            ELSE IF whole % 2 = 0 THEN whole ELSE whole + 1

\* round(a / b) on the exact quotient of ints a >= 0, b > 0, a tie to even
RoundHalfEven(a, b) ==
    LET q == a \div b
        r == a % b
    IN IF 2 * r < b THEN q
       ELSE IF 2 * r > b THEN q + 1
       ELSE IF q % 2 = 0 THEN q ELSE q + 1

(***************************************************************************)
(* View-model builders (handlers.py 159-239)                               *)
(***************************************************************************)
\* [f(x) for x in xs], given the results of the calls in order: the first
\* exception raised ends the comprehension
Collect(results) ==
    IF \E i \in DOMAIN results : ~IsOk(results[i])
    THEN results[CHOOSE i \in DOMAIN results :
                    /\ ~IsOk(results[i])
                    /\ \A j \in 1..(i - 1) : IsOk(results[j])]
    ELSE Ok([i \in DOMAIN results |-> results[i].value])

\* [show_class_name(c) for c in sorted(student.classes, key=lambda c: c.time_slot)]
class_labels(student) ==
    LET cs == Sorted("time_slot", student.classes)
    IN IF IsOk(cs)
       THEN Ok([i \in DOMAIN cs.value |-> show_class_name(cs.value[i])])
       ELSE cs

\* def create_listable_student(student) -> ListableStudent
create_listable_student(student) ==
    LET classes == class_labels(student)
    IN IF IsOk(classes)
       THEN Ok([id |-> UUIDStr(student.id),
                name |-> student.name,
                status |-> show_status(student.status),
                classes |-> classes.value])
       ELSE classes

\* def create_student_list_view(students_): dict(students=[...])
create_student_list_view(students_) ==
    LET rows == Collect([i \in DOMAIN students_ |-> create_listable_student(students_[i])])
    IN IF IsOk(rows) THEN Ok([students |-> rows.value]) ELSE rows

\* def create_student_profile(student) -> StudentProfile
create_student_profile(student) ==
    [id |-> UUIDStr(student.id),
     name |-> student.name,
     status |-> show_status(student.status),
     parent_phone_number |-> student.contact.parent_phone_number]

\* def create_student_detail(student) -> StudentDetail, date.today() being today_
create_student_detail(student, today_) ==
    LET classes == class_labels(student)
    IN IF IsOk(classes)
       THEN Ok([id |-> UUIDStr(student.id),
                name |-> student.name,
                age |-> calculate_age(today_, student.date_of_birth),
                gender |-> show_gender(student.gender),
                parent_phone_number |-> student.contact.parent_phone_number,
                date_joined |-> show_date_joined(student.date_joined),
                status |-> show_status(student.status),
                classes |-> classes.value])
       ELSE classes

\* def create_student_detail_view(student)
create_student_detail_view(student, today_) ==
    LET detail == create_student_detail(student, today_)
    IN IF IsOk(detail)
       THEN Ok([student_profile |-> create_student_profile(student),
                student_detail |-> detail.value])
       ELSE detail

\* attendances_for(status): len([a for a in attendances if a.status is status])
attendances_for(attendances, status) ==
    Cardinality({i \in DOMAIN attendances : attendances[i].status = status})

\* percentage(): round((100 / total_days()) * (days_present() + days_late()));
\* 100 / 0 raises ZeroDivisionError
percentage(attendances) ==
    LET total_days == Len(attendances)
        days_present == attendances_for(attendances, "PRESENT")
        days_late == attendances_for(attendances, "LATE")
    IN IF total_days = 0 THEN Raise("ZeroDivisionError")
       ELSE Ok(PyRound(FloatMulInt(FloatDiv(100, total_days), days_present + days_late)))

\* def create_class_attendance(cls, attendances) -> AttendanceRecord
create_class_attendance(cls, attendances) ==
    LET pct == percentage(attendances)
    IN IF IsOk(pct)
       THEN Ok([class_name |-> show_class_name(cls),
                days_absent |-> attendances_for(attendances, "ABSENT"),
                days_present |-> attendances_for(attendances, "PRESENT"),
                days_late |-> attendances_for(attendances, "LATE"),
                total_days |-> Len(attendances),
                percentage |-> pct.value])
       ELSE pct

\* itertools.groupby(s, key=lambda a: a.class_): a new group starts wherever
\* the key differs (by ==) from the key of the entry before
GroupStarts(s) == {i \in DOMAIN s : i = 1 \/ s[i].class_ # s[i - 1].class_}

\* the groups of groupby in order: each a key and its run of entries
GroupBy(s) ==
    LET starts == GroupStarts(s)
        EndOf(i) == IF \E j \in starts : j > i
                    THEN (CHOOSE j \in starts : j > i /\ \A k \in starts : k > i => j <= k) - 1
                    ELSE Len(s)
        StartNo(n) == CHOOSE i \in starts : Cardinality({j \in starts : j < i}) = n - 1
    IN [n \in 1..Cardinality(starts) |->
            [cls |-> s[StartNo(n)].class_,
             attendances |-> SubSeq(s, StartNo(n), EndOf(StartNo(n)))]]

\* the (cls, attendances) pairs create_attendance_records iterates over:
\* groupby(sorted(student.attendances, key=lambda a: a.class_.id), key=lambda a: a.class_)
grouped_attendances(student) ==
    GroupBy(Sorted("class_id", student.attendances).value)

\* def create_attendance_records(student) -> List[AttendanceRecord]
create_attendance_records(student) ==
    LET groups == grouped_attendances(student)
    IN Collect([n \in DOMAIN groups |->
                    create_class_attendance(groups[n].cls, groups[n].attendances)])

\* def create_student_attendance_view(student), date.today() being today_
create_student_attendance_view(student, today_) ==
    LET records == create_attendance_records(student)
    IN IF IsOk(records)
       THEN Ok([student_profile |-> create_student_profile(student),
                attendance_records |-> records.value,
                today |-> today_])
       ELSE records

(***************************************************************************)
(* Fixtures (handlers.py 242-316)                                          *)
(***************************************************************************)
class1 ==
    Class(<<10, 10, 3, 6, 14, 8, 12, 15, 4, 12, 13, 14, 4, 0, 5, 4,
            11, 8, 1, 3, 5, 1, 1, 13, 11, 12, 10, 4, 14, 0, 8, 12>>,
          "Gukche-ban Claire", TimeSlot(6, 20, "PM"))

class2 ==
    Class(<<10, 10, 13, 14, 1, 13, 3, 4, 2, 0, 13, 1, 4, 13, 13, 5,
            10, 3, 0, 2, 9, 11, 9, 5, 3, 11, 11, 3, 3, 1, 8, 1>>,
          "U Seonmi seonsaengnim", TimeSlot(8, 10, "PM"))

class3 ==
    Class(<<9, 11, 9, 4, 4, 10, 2, 7, 8, 8, 9, 15, 4, 5, 15, 1,
            8, 6, 3, 13, 7, 15, 1, 12, 14, 4, 12, 9, 6, 15, 0, 4>>,
          "U Seonmi seonsaengnim", TimeSlot(8, 10, "PM"))

student1 ==
    [id |-> <<8, 15, 3, 15, 5, 5, 12, 15, 13, 14, 6, 9, 4, 14, 7, 0,
              8, 2, 13, 4, 10, 10, 12, 0, 12, 10, 8, 2, 13, 9, 14, 14>>,
     name |-> "I Chaewon",
     date_of_birth |-> <<2005, 1, 22>>,
     gender |-> "FEMALE",
     contact |-> ContactInfo("010-2345-6789"),
     date_joined |-> <<2018, 5, 13>>,
     status |-> "NONE",
     classes |-> <<class1>>,
     attendances |-> <<
        Attendance(<<2020, 6, 1>>, class1, "PRESENT"),
        Attendance(<<2020, 5, 29>>, class1, "PRESENT"),
        Attendance(<<2020, 5, 28>>, class1, "PRESENT"),
        Attendance(<<2020, 5, 27>>, class1, "ABSENT"),
        Attendance(<<2020, 5, 26>>, class1, "LATE") >>]

student2 ==
    [id |-> <<7, 3, 10, 15, 9, 1, 10, 10, 1, 10, 8, 8, 4, 15, 13, 9,
              8, 15, 15, 10, 11, 3, 1, 2, 9, 7, 13, 1, 13, 12, 13, 13>>,
     name |-> "Gim Daehyeon",
     date_of_birth |-> <<2006, 3, 1>>,
     gender |-> "MALE",
     contact |-> ContactInfo("010-2345-6789"),
     date_joined |-> <<2017, 2, 2>>,
     status |-> "NONE",
     classes |-> <<class1, class2>>,
     attendances |-> <<
        Attendance(<<2020, 6, 1>>, class1, "PRESENT"),
        Attendance(<<2020, 6, 1>>, class2, "PRESENT"),
        Attendance(<<2020, 5, 29>>, class1, "PRESENT"),
        Attendance(<<2020, 5, 29>>, class2, "PRESENT"),
        Attendance(<<2020, 5, 28>>, class1, "PRESENT"),
        Attendance(<<2020, 5, 28>>, class2, "PRESENT"),
        Attendance(<<2020, 5, 27>>, class1, "ABSENT"),
        Attendance(<<2020, 5, 27>>, class2, "LATE"),
        Attendance(<<2020, 5, 29>>, class1, "PRESENT"),
        Attendance(<<2020, 5, 26>>, class1, "LATE") >>]

student3 ==
    [id |-> <<6, 5, 12, 11, 2, 13, 12, 9, 9, 5, 11, 4, 4, 12, 11, 6,
              9, 8, 7, 13, 7, 8, 10, 9, 13, 11, 5, 14, 2, 12, 8, 11>>,
     name |-> "Bak Eungyeong",
     date_of_birth |-> <<2003, 6, 10>>,
     gender |-> "FEMALE",
     contact |-> ContactInfo("010-2345-6789"),
     date_joined |-> <<2016, 10, 24>>,
     status |-> "BREAK",
     classes |-> <<class3>>,
     attendances |-> <<
        Attendance(<<2020, 6, 1>>, class3, "ABSENT"),
        Attendance(<<2020, 5, 29>>, class3, "ABSENT"),
        Attendance(<<2020, 5, 28>>, class3, "ABSENT"),
        Attendance(<<2020, 5, 27>>, class3, "ABSENT"),
        Attendance(<<2020, 5, 26>>, class3, "ABSENT") >>]

\* students = [Student(...), Student(...), Student(...)]
InitialStudents == <<student1, student2, student3>>

(***************************************************************************)
(* Request handlers (handlers.py 324-352) behind the routes of app.py      *)
(*                                                                         *)
(* Each client sends one request at a time.  A handler is taken in steps   *)
(* (receive, look the student up, build the view or raise), and the steps  *)
(* of different clients interleave freely, which covers every runtime that *)
(* serves requests concurrently.  `found` holds a reference into the       *)
(* store (an index of `students`, 0 for None), as the local `student` of   *)
(* the handler does.                                                       *)
(***************************************************************************)
NumClients == 2

MaxTicks == 1

Clients == 1..NumClients

Routes == {"list", "detail", "attendance"}

\* the day the service starts: the eve of the birthday of student2
StartDate == <<2020, 2, 29>>

RECURSIVE DayAfter(_, _)
\* the k-th day after d
DayAfter(d, k) == IF k = 0 THEN d ELSE DayAfter(NextDay(d), k - 1)

\* request.match_info.get("student_id") for the requests tried: None, the
\* string forms of the fixture students' ids, and strings that are no
\* student's id (empty, malformed, a well-formed other UUID, and a student's
\* id in its hex form without hyphens)
StudentIds ==
    {None, Some(""), Some("not-a-uuid"), Some(UUIDStr(class1.id)),
     Some(HexStr(student1.id, 1, 32))}
        \cup {Some(UUIDStr(InitialStudents[i].id)) : i \in DOMAIN InitialStudents}

\* the identifiers of the requests that run concurrently: a student (with
\* two classes, and a birthday at the first midnight) and no student
ConcurrentIds == {Some(UUIDStr(student2.id)), Some("not-a-uuid")}

NoRequest == [route |-> "", student_id |-> None]

NoResponse == [status |-> 0, template |-> "", view |-> <<>>, served |-> <<>>]

\* what the aiohttp_jinja2.template decorator hands on: the view of a handler
\* that returned, rendered with the template; the HTTP error of one that raised
\* (web.HTTPNotFound, or 500 for any other exception); served is the day the
\* handler ran
Rendered(template, view, day) ==
    IF IsOk(view)
    THEN [status |-> 200, template |-> template, view |-> view.value, served |-> day]
    ELSE [status |-> 500, template |-> "", view |-> <<>>, served |-> day]

HTTPNotFound(day) == [status |-> 404, template |-> "", view |-> <<>>, served |-> day]

\* the reference get_student returns when the first student is handed out
\* for an id that matches none
get_student_or_first(students_, student_id) ==
    IF \E i \in DOMAIN students_ : UUIDStr(students_[i].id) = student_id
    THEN CHOOSE i \in DOMAIN students_ :
            /\ UUIDStr(students_[i].id) = student_id
            /\ \A j \in 1..(i - 1) : UUIDStr(students_[j].id) # student_id
    ELSE 1

\* def get_student(student_id): next((s for s in students if str(s.id) == student_id), None)
get_student(students_, student_id) ==
    IF \E i \in DOMAIN students_ : UUIDStr(students_[i].id) = student_id
    THEN CHOOSE i \in DOMAIN students_ :
            /\ UUIDStr(students_[i].id) = student_id
            /\ \A j \in 1..(i - 1) : UUIDStr(students_[j].id) # student_id
    ELSE 0

\* a request arrives and the router calls the route's handler; ids are the
\* values of match_info's student_id the clients try
Receive(c, ids) ==
    /\ pc[c] \in {"idle", "done"}
    /\ \E route \in Routes :
         \E id \in (IF route = "list" THEN {None} ELSE ids) :
            request' = [request EXCEPT ![c] = [route |-> route, student_id |-> id]]
    /\ pc' = [pc EXCEPT ![c] = "handle"]
    /\ found' = [found EXCEPT ![c] = 0]
    /\ response' = [response EXCEPT ![c] = NoResponse]
    /\ UNCHANGED <<students, today, input, output>>

\* create_student_list_handler.handle: return create_student_list_view(students)
HandleList(c) ==
    /\ pc[c] = "handle"
    /\ request[c].route = "list"
    /\ response' = [response EXCEPT ![c] =
            Rendered("students/list.jinja2", create_student_list_view(students), today)]
    /\ pc' = [pc EXCEPT ![c] = "done"]
    /\ UNCHANGED <<students, today, request, found, input, output>>

\* the two conditions of the detail and attendance handlers:
\*   if student_id := request.match_info.get("student_id"):
\*       if student := get_student(student_id):
\* None and "" are falsy; a Student is truthy
Lookup(c) ==
    /\ pc[c] = "handle"
    /\ request[c].route \in {"detail", "attendance"}
    /\ LET id == request[c].student_id
           ref == IF id = None \/ id = Some("") THEN 0 ELSE get_student(students, id[1])
       IN /\ found' = [found EXCEPT ![c] = ref]
          /\ pc' = [pc EXCEPT ![c] = IF ref = 0 THEN "raise" ELSE "build"]
    /\ UNCHANGED <<students, today, request, response, input, output>>

\* the view of the student found, built and returned in place of Build's own
\* after the student's attendances were sorted in place
BuildSortingInPlace(c) ==
    /\ pc[c] = "build"
    /\ students' = [students EXCEPT ![found[c]].attendances =
                        Sorted("class_id", students[found[c]].attendances).value]
    /\ response' = [response EXCEPT ![c] =
            IF request[c].route = "detail"
            THEN Rendered("students/detail.jinja2",
                          create_student_detail_view(students[found[c]], today), today)
            ELSE Rendered("students/attendance.jinja2",
                          create_student_attendance_view(students[found[c]], today), today)]
    /\ pc' = [pc EXCEPT ![c] = "done"]
    /\ UNCHANGED <<today, request, found, input, output>>

\* return create_student_detail_view(student)
\* return create_student_attendance_view(student)
Build(c) ==
    /\ pc[c] = "build"
    /\ response' = [response EXCEPT ![c] =
            IF request[c].route = "detail"
            THEN Rendered("students/detail.jinja2",
                          create_student_detail_view(students[found[c]], today), today)
            ELSE Rendered("students/attendance.jinja2",
                          create_student_attendance_view(students[found[c]], today), today)]
    /\ pc' = [pc EXCEPT ![c] = "done"]
    /\ UNCHANGED <<students, today, request, found, input, output>>

\* raise web.HTTPNotFound()
NotFound(c) ==
    /\ pc[c] = "raise"
    /\ response' = [response EXCEPT ![c] = HTTPNotFound(today)]
    /\ pc' = [pc EXCEPT ![c] = "done"]
    /\ UNCHANGED <<students, today, request, found, input, output>>

\* midnight passes: date.today() moves on
Tick ==
    /\ \E k \in 0..(MaxTicks - 1) : today = DayAfter(StartDate, k)
    /\ today' = NextDay(today)
    /\ UNCHANGED <<students, pc, request, found, response, input, output>>

Idle ==
    /\ pc = [c \in Clients |-> "idle"]
    /\ request = [c \in Clients |-> NoRequest]
    /\ found = [c \in Clients |-> 0]
    /\ response = [c \in Clients |-> NoResponse]

Init ==
    /\ students = InitialStudents
    /\ today = StartDate
    /\ Idle
    /\ input = <<>>
    /\ output = <<>>

\* any number of requests in flight, their steps interleaved
Next ==
    \/ \E c \in Clients : Receive(c, ConcurrentIds)
    \/ \E c \in Clients : HandleList(c)
    \/ \E c \in Clients : Lookup(c)
    \/ \E c \in Clients : Build(c)
    \/ \E c \in Clients : NotFound(c)
    \/ Tick

Spec == Init /\ [][Next]_vars

\* one request at a time, over every identifier
NextSerial ==
    \/ Receive(1, StudentIds)
    \/ HandleList(1)
    \/ Lookup(1)
    \/ Build(1)
    \/ NotFound(1)
    \/ Tick

SpecSerial == Init /\ [][NextSerial]_vars

\* the response of a handler that runs alone, start to end, on the store as
\* initialised, on the given day
Alone(req, day) ==
    IF req.route = "list"
    THEN Rendered("students/list.jinja2", create_student_list_view(InitialStudents), day)
    ELSE LET id == req.student_id
             ref == IF id = None \/ id = Some("") THEN 0
                    ELSE get_student(InitialStudents, id[1])
         IN IF ref = 0 THEN HTTPNotFound(day)
            ELSE IF req.route = "detail"
            THEN Rendered("students/detail.jinja2",
                          create_student_detail_view(InitialStudents[ref], day), day)
            ELSE Rendered("students/attendance.jinja2",
                          create_student_attendance_view(InitialStudents[ref], day), day)

(***************************************************************************)
(* C6.  The detail and attendance handlers answer an identifier that is    *)
(* the string form of a fixture student's id with the view of exactly that *)
(* student (profile id equal to the identifier), and every other           *)
(* identifier (absent, empty, malformed, or an unknown UUID) with          *)
(* HTTPNotFound: never with another student's view, never with another     *)
(* error.                                                                  *)
(***************************************************************************)
C6_FoundOrNotFound ==
    \A c \in Clients :
        (pc[c] = "done" /\ request[c].route \in {"detail", "attendance"}) =>
            LET id == request[c].student_id
                matches == {i \in DOMAIN InitialStudents :
                                id = Some(UUIDStr(InitialStudents[i].id))}
            IN IF matches # {}
               THEN /\ response[c].status = 200
                    /\ response[c].view.student_profile.id = id[1]
                    /\ \A i \in matches :
                        /\ response[c].view.student_profile
                             = create_student_profile(InitialStudents[i])
                        /\ request[c].route = "detail" =>
                             /\ response[c].view.student_detail.id = id[1]
                             /\ response[c].view.student_detail.name
                                  = InitialStudents[i].name
                        /\ request[c].route = "attendance" =>
                             response[c].view.attendance_records
                               = create_attendance_records(InitialStudents[i]).value
               ELSE response[c].status = 404

\* a request for the attendance of the third fixture student was answered
C6_Witness ==
    \E c \in Clients :
        /\ pc[c] = "done"
        /\ request[c] = [route |-> "attendance",
                         student_id |-> Some("65cb2dc9-95b4-4cb6-987d-78a9db5e2c8b")]
        /\ response[c].status = 200
        /\ response[c].view.student_profile.name = "Bak Eungyeong"

(***************************************************************************)
(* C7.  Whatever the interleaving of the handlers' steps, the fixture      *)
(* store keeps its initial value, and every response is the one the same   *)
(* request gets from a handler that runs alone on the day it was served.   *)
(***************************************************************************)
C7_HandlersDoNotInterfere ==
    /\ students = InitialStudents
    /\ \A c \in Clients :
          pc[c] = "done" => response[c] = Alone(request[c], response[c].served)

\* one request was answered before midnight while another, for the same
\* student, is between its lookup and its view after midnight
C7_Witness ==
    \E c, d \in Clients :
        /\ c # d
        /\ pc[c] = "done" /\ response[c].status = 200
        /\ request[c].route = "detail" /\ response[c].served = StartDate
        /\ pc[d] = "build" /\ request[d].route = "attendance"
        /\ found[d] = found[c]
        /\ today # StartDate

(***************************************************************************)
(* The specifications below call one builder or formatter on arguments     *)
(* drawn from bounded sets.  The builders take what they work on as an     *)
(* argument and never read the store, so these specifications leave the    *)
(* store empty and the clients idle.                                       *)
(***************************************************************************)
NoStore ==
    /\ students = <<>>
    /\ Idle

(***************************************************************************)
(* calculate_age day by day: input is the date of birth, today the day     *)
(* the age is asked for, output the age calculate_age returns.             *)
(***************************************************************************)
MaxAge == 16

\* the birth dates tried: the fixture's, the days around the end of February
\* of a leap year, the last day of a year, and a 29 February whose fourth
\* year after is no leap year
Births ==
    {student1.date_of_birth, student2.date_of_birth, student3.date_of_birth,
     <<2004, 2, 28>>, <<2004, 2, 29>>, <<2004, 3, 1>>, <<2003, 12, 31>>,
     <<2096, 2, 29>>}

InitAge ==
    /\ NoStore
    /\ input \in Births
    /\ today = input
    /\ output = calculate_age(today, input)

\* the next day, and the age on it
AgeNextDay ==
    /\ today[1] < input[1] + MaxAge
    /\ today' = NextDay(today)
    /\ output' = calculate_age(today', input)
    /\ UNCHANGED <<students, pc, request, found, response, input>>

NextAge == AgeNextDay

SpecAge == InitAge /\ [][NextAge]_vars

\* the birthday of date_of_birth in year y, a day of the month that year y
\* does not have being the last day the month has
Anniversary(date_of_birth, y) ==
    <<y, date_of_birth[2],
      IF date_of_birth[3] < DaysInMonth(y, date_of_birth[2])
      THEN date_of_birth[3] ELSE DaysInMonth(y, date_of_birth[2])>>

\* the anniversaries of date_of_birth that are not after day
WholeYears(day, date_of_birth) ==
    (day[1] - date_of_birth[1])
        - (IF DateLess(day, Anniversary(date_of_birth, day[1])) THEN 1 ELSE 0)

(***************************************************************************)
(* C8 as stated.  From one day to the next the age grows by exactly 1 when *)
(* the new day is the birthday anniversary, the day with the month and the *)
(* day of the month of the date of birth, and by 0 on every other day,     *)
(* also for a birth on 29 February.                                        *)
(***************************************************************************)
C8_AsStated ==
    [][today' # today =>
        output' - output =
            IF today'[2] = input[2] /\ today'[3] = input[3] THEN 1 ELSE 0]_vars

(***************************************************************************)
(* C8 amended.  For today >= date_of_birth the age is the number of whole  *)
(* calendar years elapsed, where the anniversary in a year that lacks the  *)
(* day of birth (29 February in a year that is no leap year) is the last   *)
(* day of that month: the age is 0 on the date of birth, never decreases,  *)
(* grows by exactly 1 on a day that is such an anniversary and by 0 on     *)
(* every other day; calculate_age(2020-06-01, 2005-01-22) = 15.            *)
(***************************************************************************)
C8_AgeState ==
    /\ today = input => output = 0
    /\ output = WholeYears(today, input)
    /\ (input = <<2005, 1, 22>> /\ today = <<2020, 6, 1>>) => output = 15

C8_AgeStep ==
    today' # today =>
        /\ output' >= output
        /\ output' - output =
             IF today' = Anniversary(input, today'[1]) THEN 1 ELSE 0

\* C8 amended: the age is the number of anniversaries passed, on every day
\* and from every day to the next
C8_WholeYears == []C8_AgeState /\ [][C8_AgeStep]_vars

\* a birth on 29 February, asked for on the 28 February a year later
C8_Witness ==
    /\ input = <<2004, 2, 29>>
    /\ today = <<2005, 2, 28>>
    /\ output = 1

(***************************************************************************)
(* create_class_attendance on one group: input is the class and the        *)
(* group's attendances, output what the call returns or raises.            *)
(***************************************************************************)
MaxGroup == 3

MaxDays == 24

AttendanceDay == <<2020, 6, 1>>

\* every group of at most MaxGroup entries, in every order
SmallGroups ==
    {[i \in DOMAIN g |-> Attendance(AttendanceDay, class1, g[i])] :
        g \in SeqsUpTo(AttendanceStatus, MaxGroup)}

\* the group of p PRESENT, then a ABSENT, then l LATE entries
BlockGroup(p, a, l) ==
    [i \in 1..(p + a + l) |->
        Attendance(AttendanceDay, class1,
                   IF i <= p THEN "PRESENT" ELSE IF i <= p + a THEN "ABSENT" ELSE "LATE")]

\* the groups of up to MaxDays entries, by their counts
BlockGroups ==
    {BlockGroup(p, a, l) : <<p, a, l>> \in
        {c \in (0..MaxDays) \X (0..MaxDays) \X (0..MaxDays) : c[1] + c[2] + c[3] <= MaxDays}}

InitClassAttendance ==
    /\ NoStore
    /\ today = StartDate
    /\ input \in {[cls |-> class1, attendances |-> g] : g \in SmallGroups \cup BlockGroups}
    /\ output = None

CallClassAttendance ==
    /\ output = None
    /\ output' = Some(create_class_attendance(input.cls, input.attendances))
    /\ UNCHANGED <<students, today, pc, request, found, response, input>>

NextClassAttendance == CallClassAttendance

SpecClassAttendance == InitClassAttendance /\ [][NextClassAttendance]_vars

\* the number of entries of s with the given status, counted entry by entry
RECURSIVE CountStatus(_, _)
CountStatus(s, status) ==
    IF s = <<>> THEN 0
    ELSE (IF Head(s).status = status THEN 1 ELSE 0) + CountStatus(Tail(s), status)

(***************************************************************************)
(* C2.  For every non-empty group the record's percentage is               *)
(* 100 * (days_present + days_late) / total_days rounded to the nearest    *)
(* integer, a tie to the even one, and lies in 0..100; the group           *)
(* [PRESENT, PRESENT, PRESENT, ABSENT, LATE] gives 80 and an all-ABSENT    *)
(* group gives 0.                                                          *)
(***************************************************************************)
C2_AsStated ==
    (output # None /\ input.attendances # <<>>) =>
        LET g == input.attendances
            counted == CountStatus(g, "PRESENT") + CountStatus(g, "LATE")
        IN /\ IsOk(output[1])
           /\ output[1].value.percentage = RoundHalfEven(100 * counted, Len(g))
           /\ output[1].value.percentage \in 0..100
           /\ g = BlockGroup(3, 1, 1) => output[1].value.percentage = 80
           /\ counted = 0 => output[1].value.percentage = 0

(***************************************************************************)
(* C3.  For every group the record's total_days is the number of entries   *)
(* and days_absent, days_late, days_present are the numbers of ABSENT,     *)
(* LATE and PRESENT entries, which add up to total_days; the group         *)
(* [PRESENT, PRESENT, PRESENT, ABSENT, LATE] gives 1, 1, 3 of 5.           *)
(***************************************************************************)
C3_AsStated ==
    output # None =>
        LET g == input.attendances
        IN /\ IsOk(output[1])
           /\ output[1].value.total_days = Len(g)
           /\ output[1].value.days_absent = CountStatus(g, "ABSENT")
           /\ output[1].value.days_late = CountStatus(g, "LATE")
           /\ output[1].value.days_present = CountStatus(g, "PRESENT")
           /\ output[1].value.days_absent + output[1].value.days_late
                + output[1].value.days_present = output[1].value.total_days
           /\ g = BlockGroup(3, 1, 1) =>
                /\ output[1].value.days_absent = 1
                /\ output[1].value.days_late = 1
                /\ output[1].value.days_present = 3
                /\ output[1].value.total_days = 5

(***************************************************************************)
(* C4.  For a group with no entries (total_days = 0) the call does not     *)
(* fail on a division by zero: it returns a record whose percentage is 0.  *)
(***************************************************************************)
C4_AsStated ==
    (output # None /\ input.attendances = <<>>) =>
        /\ IsOk(output[1])
        /\ output[1].value.percentage = 0

\* C3 on the groups the program itself passes (groupby yields no empty group)
C3_NonEmptyGroups ==
    (output # None /\ input.attendances # <<>>) => C3_AsStated

(***************************************************************************)
(* create_attendance_records on one student: input is the student, output  *)
(* what the call returns or raises.                                        *)
(***************************************************************************)
MaxAttendances == 3

\* class1 under another name: an unequal Class with the id of class1
class1_renamed == Class(class1.id, "Gukche-ban Clare", class1.time_slot)

\* the attendance entries tried
AttendancePool ==
    {Attendance(AttendanceDay, c, s) :
        c \in {class1, class1_renamed, class2}, s \in {"PRESENT", "ABSENT"}}

InitRecords ==
    /\ NoStore
    /\ today = StartDate
    /\ input \in {[student1 EXCEPT !.attendances = as] :
                    as \in SeqsUpTo(AttendancePool, MaxAttendances)}
    /\ output = None

CallAttendanceRecords ==
    /\ output = None
    /\ output' = Some(create_attendance_records(input))
    /\ UNCHANGED <<students, today, pc, request, found, response, input>>

NextRecords == CallAttendanceRecords

SpecRecords == InitRecords /\ [][NextRecords]_vars

\* the sequences with the entries of s in another order
Reorderings(s) ==
    {[i \in DOMAIN s |-> s[p[i]]] :
        p \in {q \in [DOMAIN s -> DOMAIN s] : \A i, j \in DOMAIN s : q[i] = q[j] => i = j}}

\* the sum of the total_days of a sequence of records
RECURSIVE SumTotalDays(_)
SumTotalDays(records) ==
    IF records = <<>> THEN 0
    ELSE Head(records).total_days + SumTotalDays(Tail(records))

(***************************************************************************)
(* C1.  create_attendance_records partitions the attendances by Class      *)
(* value: two entries are counted in the same record iff their classes are *)
(* equal, so there is exactly one record per distinct Class of the list    *)
(* (each counting all the entries of its class) and the total_days add up  *)
(* to the length of the list, also when unequal classes share an id and    *)
(* their entries are interleaved.                                          *)
(***************************************************************************)
C1_AsStated ==
    output # None =>
        LET as == input.attendances
            classes == {as[i].class_ : i \in DOMAIN as}
            groups == grouped_attendances(input)
        IN /\ IsOk(output[1])
           /\ Len(output[1].value) = Cardinality(classes)
           /\ SumTotalDays(output[1].value) = Len(as)
           /\ \A c \in classes :
                \E n \in DOMAIN groups :
                    /\ groups[n].cls = c
                    /\ output[1].value[n].class_name = show_class_name(c)
                    /\ output[1].value[n].total_days
                         = Cardinality({i \in DOMAIN as : as[i].class_ = c})

(***************************************************************************)
(* C10.  The records come in ascending order of the Class id of their      *)
(* group whatever the order of the entries, so every permutation of the    *)
(* same entries gives the same output.                                     *)
(***************************************************************************)
C10_AsStated ==
    output # None =>
        LET groups == grouped_attendances(input)
        IN /\ \A m, n \in DOMAIN groups :
                m < n => ~UUIDLess(groups[n].cls.id, groups[m].cls.id)
           /\ \A as \in Reorderings(input.attendances) :
                create_attendance_records([input EXCEPT !.attendances = as]) = output[1]

(***************************************************************************)
(* create_student_list_view on a list of students and create_student_detail*)
(* on one of them: input is the list, output the call and what it returns  *)
(* or raises.                                                              *)
(***************************************************************************)
MaxStudents == 2

MaxClasses == 2

\* a class at the hours and minutes of class1 in the other period, and a
\* morning class late in the period
class1_morning == Class(class3.id, "Achim-ban", TimeSlot(6, 20, "AM"))

class_noon == Class(class2.id, "Jeongo-ban", TimeSlot(11, 50, "AM"))

ClassPool == {class1, class2, class1_morning, class_noon}

\* the students tried: two fixture students, enrolled in any classes (their
\* attendances, which these builders do not read, left out)
StudentPool ==
    {[s EXCEPT !.classes = cs, !.attendances = <<>>] :
        s \in {student1, student3}, cs \in SeqsUpTo(ClassPool, MaxClasses)}

InitStudents ==
    /\ NoStore
    /\ today = StartDate
    /\ input \in SeqsUpTo(StudentPool, MaxStudents)
    /\ output = None

CallListView ==
    /\ output = None
    /\ output' = Some([call |-> "create_student_list_view", arg |-> 0,
                       result |-> create_student_list_view(input)])
    /\ UNCHANGED <<students, today, pc, request, found, response, input>>

CallStudentDetail ==
    /\ output = None
    /\ \E i \in DOMAIN input :
         output' = Some([call |-> "create_student_detail", arg |-> i,
                         result |-> create_student_detail(input[i], today)])
    /\ UNCHANGED <<students, today, pc, request, found, response, input>>

NextStudents == CallListView \/ CallStudentDetail

SpecStudents == InitStudents /\ [][NextStudents]_vars

\* time slot a is not after b: (hours, minutes, period) compared position by
\* position, AM before PM
SlotNotAfter(a, b) ==
    \/ a[1] < b[1]
    \/ a[1] = b[1] /\ a[2] < b[2]
    \/ a[1] = b[1] /\ a[2] = b[2] /\ (a[3] = b[3] \/ a[3] = "AM")

\* labels are the labels of the classes in some ascending order of time slot
LabelsInSlotOrder(labels, classes) ==
    \E cs \in Reorderings(classes) :
        /\ \A i, j \in DOMAIN cs : i < j => SlotNotAfter(cs[i].time_slot, cs[j].time_slot)
        /\ labels = [i \in DOMAIN cs |-> show_class_name(cs[i])]

(***************************************************************************)
(* C5.  Whatever the student's list of classes, the class labels of the    *)
(* student's list row and of the student's detail are the labels of the    *)
(* classes in ascending order of (hours, minutes, period), AM before PM;   *)
(* for two classes with the same hours and minutes and different periods   *)
(* the builder returns the AM class first and does not fail.               *)
(***************************************************************************)
C5_AsStated ==
    output # None =>
        /\ IsOk(output[1].result)
        /\ output[1].call = "create_student_list_view" =>
             \A i \in DOMAIN input :
                LabelsInSlotOrder(output[1].result.value.students[i].classes,
                                  input[i].classes)
        /\ output[1].call = "create_student_detail" =>
             LabelsInSlotOrder(output[1].result.value.classes,
                               input[output[1].arg].classes)

(***************************************************************************)
(* C9.  For every list of students create_student_list_view returns one    *)
(* row per student in the order of the list: as many rows as students, row *)
(* i with the id, the name and the status label of student i.              *)
(***************************************************************************)
C9_AsStated ==
    (output # None /\ output[1].call = "create_student_list_view") =>
        /\ IsOk(output[1].result)
        /\ Len(output[1].result.value.students) = Len(input)
        /\ \A i \in DOMAIN input :
             /\ output[1].result.value.students[i].id = UUIDStr(input[i].id)
             /\ output[1].result.value.students[i].name = input[i].name
             /\ output[1].result.value.students[i].status = show_status(input[i].status)

=============================================================================
